---- MODULE Spec2Model ----
(***************************************************************************)
(* pLang (src/src/plang.py): Lexer.getTokens, Parser.parse and             *)
(* Interpreter.interpret, driven by run(), on one source text.             *)
(*                                                                         *)
(* A character is a one-character string, a text is a sequence of          *)
(* characters.  Python's None is the empty tuple and a present value x is  *)
(* the one-element tuple <<x>>.                                            *)
(***************************************************************************)
EXTENDS Integers, Sequences, FiniteSets, TLC

None == <<>>
Some(x) == <<x>>

(***************************************************************************)
(* Bounds of the explored inputs.                                          *)
(***************************************************************************)
MaxLen == 4
MaxOperands == 3

(***************************************************************************)
(* Constants                                                               *)
(***************************************************************************)
NL == "\n"
TAB == "\t"
QUOTE == "\""

WHITESPACES == {" ", NL, TAB}
DIGITS == {"1", "2", "3", "4", "5", "6", "7", "8", "9", "0"}

TT_INT == "INT"
TT_STR == "STR"
TT_PLUS == "PLUS"
TT_MINUS == "MINUS"
TT_MULTIPLY == "MULTIPLY"
TT_DIVIDE == "DIVIDE"
TT_LPAREN == "LPAREN"
TT_RPAREN == "RPAREN"
TT_EOF == "EOF"

(***************************************************************************)
(* Position                                                                *)
(***************************************************************************)
Position(idx, ln, col) == [idx |-> idx, ln |-> ln, col |-> col]

PositionAdvanceNoReset(pos, currentChar) ==
    IF currentChar = NL
    THEN [idx |-> pos.idx + 1, ln |-> pos.ln + 1, col |-> pos.col + 1]
    ELSE [idx |-> pos.idx + 1, ln |-> pos.ln, col |-> pos.col + 1]

PositionAdvance(pos, currentChar) ==
    IF currentChar = NL
    THEN [idx |-> pos.idx + 1, ln |-> pos.ln + 1, col |-> 1]
    ELSE [idx |-> pos.idx + 1, ln |-> pos.ln, col |-> pos.col + 1]

(***************************************************************************)
(* Errors and tokens                                                       *)
(***************************************************************************)
Error(errName, errDetails, startPos, endPos) ==
    [errName |-> errName, errDetails |-> errDetails,
     startPos |-> startPos, endPos |-> endPos]

IllegalCharError(errDetails, startPos, endPos) ==
    Error("IllegalCharError", errDetails, startPos, endPos)

SyntaxError(errDetails, startPos, endPos) ==
    Error("SyntaxError", errDetails, startPos, endPos)

Token(type, lexical, startPos, endPos) ==
    [type |-> type, lexical |-> lexical, startPos |-> startPos, endPos |-> endPos]

(***************************************************************************)
(* Lexer helpers                                                           *)
(***************************************************************************)
LexerIsEnd(src, pos) == pos.idx >= Len(src)

LexerPeek(src, pos) == IF LexerIsEnd(src, pos) THEN "" ELSE src[pos.idx + 1]

LexerAdvance(src, pos) ==
    IF LexerIsEnd(src, pos) THEN pos ELSE PositionAdvance(pos, LexerPeek(src, pos))

OpTokenType(c) ==
    CASE c = "+" -> TT_PLUS
      [] c = "-" -> TT_MINUS
      [] c = "*" -> TT_MULTIPLY
      [] c = "/" -> TT_DIVIDE
      [] c = "(" -> TT_LPAREN
      [] c = ")" -> TT_RPAREN

OpChars == {"+", "-", "*", "/", "(", ")"}

(***************************************************************************)
(* Ast nodes                                                               *)
(***************************************************************************)
LiteralNode(literal) ==
    [node |-> "LiteralNode", startPos |-> literal.startPos,
     endPos |-> literal.endPos, literal |-> literal]

BinaryNode(left, op, right) ==
    [node |-> "BinaryNode", startPos |-> left.startPos, endPos |-> right.endPos,
     left |-> left, op |-> op, right |-> right]

(***************************************************************************)
(* Parser.  Every grammar function returns the pair (node, error) of the   *)
(* source together with the parser's idx after the call.                   *)
(***************************************************************************)
ParserIsEnd(toks, idx) == idx >= Len(toks) - 1

ParserPeek(toks, idx) ==
    IF ParserIsEnd(toks, idx) THEN toks[Len(toks)] ELSE toks[idx + 1]

ParserAdvance(toks, idx) == IF ParserIsEnd(toks, idx) THEN idx ELSE idx + 1

Parsed(node, error, idx) == [node |-> node, error |-> error, idx |-> idx]

Primary(toks, idx) ==
    IF ParserPeek(toks, idx).type \in {TT_INT, TT_STR}
    THEN Parsed(Some(LiteralNode(ParserPeek(toks, idx))), None,
                ParserAdvance(toks, idx))
    ELSE Parsed(None,
                Some(SyntaxError("Expected a primary",
                                 ParserPeek(toks, idx).startPos,
                                 ParserPeek(toks, idx).endPos)),
                idx)

FactorOperatorsWithPlus == {TT_MULTIPLY, TT_DIVIDE, TT_PLUS, TT_MINUS}

FactorOperators == {TT_MULTIPLY, TT_DIVIDE}

TermOperators == {TT_PLUS, TT_MINUS}

RECURSIVE FactorLoop(_, _, _)
FactorLoop(toks, left, idx) ==
    IF ~ParserIsEnd(toks, idx) /\ ParserPeek(toks, idx).type \in FactorOperators
    THEN LET op == ParserPeek(toks, idx)
             right == Primary(toks, ParserAdvance(toks, idx))
         IN  IF right.error # None
             THEN Parsed(None, right.error, right.idx)
             ELSE FactorLoop(toks, BinaryNode(left, op, right.node[1]), right.idx)
    ELSE Parsed(Some(left), None, idx)

Factor(toks, idx) ==
    LET left == Primary(toks, idx)
    IN  IF left.error # None
        THEN Parsed(None, left.error, left.idx)
        ELSE FactorLoop(toks, left.node[1], left.idx)

RECURSIVE TermLoopRightAssoc(_, _, _)
TermLoopRightAssoc(toks, left, idx) ==
    IF ~ParserIsEnd(toks, idx) /\ ParserPeek(toks, idx).type \in TermOperators
    THEN LET op == ParserPeek(toks, idx)
             right == Factor(toks, ParserAdvance(toks, idx))
         IN  IF right.error # None
             THEN Parsed(None, right.error, right.idx)
             ELSE LET rest == TermLoopRightAssoc(toks, right.node[1], right.idx)
                  IN  IF rest.error # None
                      THEN rest
                      ELSE Parsed(Some(BinaryNode(left, op, rest.node[1])), None,
                                  rest.idx)
    ELSE Parsed(Some(left), None, idx)

RECURSIVE TermLoop(_, _, _)
TermLoop(toks, left, idx) ==
    IF ~ParserIsEnd(toks, idx) /\ ParserPeek(toks, idx).type \in TermOperators
    THEN LET op == ParserPeek(toks, idx)
             right == Factor(toks, ParserAdvance(toks, idx))
         IN  IF right.error # None
             THEN Parsed(None, right.error, right.idx)
             ELSE TermLoop(toks, BinaryNode(left, op, right.node[1]), right.idx)
    ELSE Parsed(Some(left), None, idx)

Term(toks, idx) ==
    LET left == Factor(toks, idx)
    IN  IF left.error # None
        THEN Parsed(None, left.error, left.idx)
        ELSE TermLoop(toks, left.node[1], left.idx)

ParseSpanOfToken(toks) ==
    LET t == Term(toks, 0)
    IN  IF t.error # None
        THEN Parsed(None, t.error, t.idx)
        ELSE IF ~ParserIsEnd(toks, t.idx)
             THEN Parsed(None,
                         Some(SyntaxError("Something went wrong.",
                                          ParserPeek(toks, t.idx).startPos,
                                          ParserPeek(toks, t.idx).endPos)),
                         t.idx)
             ELSE Parsed(t.node, t.error, t.idx)

Parse(toks) ==
    LET t == Term(toks, 0)
    IN  IF t.error # None
        THEN Parsed(None, t.error, t.idx)
        ELSE IF ~ParserIsEnd(toks, t.idx)
             THEN Parsed(None,
                         Some(SyntaxError("Something went wrong.",
                                          ParserPeek(toks, t.idx).startPos,
                                          toks[Len(toks)].endPos)),
                         t.idx)
             ELSE Parsed(t.node, t.error, t.idx)

(***************************************************************************)
(* Interpreter.  A runtime value is a Python int or a Python str; an       *)
(* evaluation either yields a value or raises a Python exception.          *)
(***************************************************************************)
IntValue(n) == [tag |-> "int", n |-> n, s |-> <<>>]
StrValue(s) == [tag |-> "str", n |-> 0, s |-> s]

Returned(v) == [raised |-> None, value |-> Some(v)]
Raised(exc) == [raised |-> Some(exc), value |-> None]

DigitValue(c) ==
    CASE c = "0" -> 0 [] c = "1" -> 1 [] c = "2" -> 2 [] c = "3" -> 3
      [] c = "4" -> 4 [] c = "5" -> 5 [] c = "6" -> 6 [] c = "7" -> 7
      [] c = "8" -> 8 [] c = "9" -> 9

\* int(lexical) for a non-empty run of decimal digits
RECURSIVE PyInt(_)
PyInt(lexical) ==
    IF Len(lexical) = 0 THEN 0
    ELSE 10 * PyInt(SubSeq(lexical, 1, Len(lexical) - 1))
         + DigitValue(lexical[Len(lexical)])

\* lexical[1:-1]
StripQuotes(lexical) == SubSeq(lexical, 2, Len(lexical) - 1)

\* s * n for a str s and an int n
RECURSIVE PyRepeat(_, _)
PyRepeat(s, n) == IF n <= 0 THEN <<>> ELSE s \o PyRepeat(s, n - 1)

\* a // b for ints, b # 0: the quotient rounded toward negative infinity
PyFloorDiv(a, b) ==
    LET q == IF (a >= 0) = (b > 0)
             THEN (IF a >= 0 THEN a ELSE -a) \div (IF b > 0 THEN b ELSE -b)
             ELSE -(((IF a >= 0 THEN a ELSE -a) + (IF b > 0 THEN b ELSE -b) - 1)
                    \div (IF b > 0 THEN b ELSE -b))
    IN  q

PyAdd(l, r) ==
    IF l.tag = "int" /\ r.tag = "int" THEN Returned(IntValue(l.n + r.n))
    ELSE IF l.tag = "str" /\ r.tag = "str" THEN Returned(StrValue(l.s \o r.s))
    ELSE Raised("TypeError")

PySub(l, r) ==
    IF l.tag = "int" /\ r.tag = "int" THEN Returned(IntValue(l.n - r.n))
    ELSE Raised("TypeError")

PyMul(l, r) ==
    IF l.tag = "int" /\ r.tag = "int" THEN Returned(IntValue(l.n * r.n))
    ELSE IF l.tag = "str" /\ r.tag = "int" THEN Returned(StrValue(PyRepeat(l.s, r.n)))
    ELSE IF l.tag = "int" /\ r.tag = "str" THEN Returned(StrValue(PyRepeat(r.s, l.n)))
    ELSE Raised("TypeError")

PyDiv(l, r) ==
    IF l.tag = "int" /\ r.tag = "int"
    THEN IF r.n = 0 THEN Raised("ZeroDivisionError")
         ELSE Returned(IntValue(PyFloorDiv(l.n, r.n)))
    ELSE Raised("TypeError")

Visited(raised, exprRes) == [raised |-> raised, exprRes |-> exprRes]

visitLiteralNode(ast) ==
    IF ast.literal.type = TT_INT
    THEN Visited(None, Some(IntValue(PyInt(ast.literal.lexical))))
    ELSE Visited(None, Some(StrValue(StripQuotes(ast.literal.lexical))))

ApplyOperator(type, leftRes, rightRes) ==
    CASE type = TT_PLUS -> PyAdd(leftRes, rightRes)
      [] type = TT_MINUS -> PySub(leftRes, rightRes)
      [] type = TT_MULTIPLY -> PyMul(leftRes, rightRes)
      [] type = TT_DIVIDE -> PyDiv(leftRes, rightRes)
      [] OTHER -> Raised("Exception")

\* the result of a visit: the exception it raised, if any, and the
\* interpreter's exprRes after it
RECURSIVE visit(_)
visitBinaryNode(ast) ==
    LET l == visit(ast.left)
        r == visit(ast.right)
        res == ApplyOperator(ast.op.type, l.exprRes[1], r.exprRes[1])
    IN  IF l.raised # None THEN l
        ELSE IF r.raised # None THEN r
        ELSE IF res.raised # None THEN Visited(res.raised, r.exprRes)
        ELSE Visited(None, res.value)

visit(ast) ==
    IF ast.node = "LiteralNode" THEN visitLiteralNode(ast) ELSE visitBinaryNode(ast)

(***************************************************************************)
(* Source texts                                                            *)
(***************************************************************************)
Alphabet == {"2", "0", QUOTE, "a", "+", "-", "*", "/", "(", ")", NL}

Texts == UNION {[1..k -> Alphabet] : k \in 0..MaxLen}

Literals == {<<"2">>, <<"3">>, <<QUOTE, "a", QUOTE>>}

RECURSIVE Chains(_)
Chains(n) ==
    IF n = 1 THEN Literals
    ELSE {c \o <<o>> \o l : c \in Chains(n - 1), o \in {"+", "-", "*", "/"},
                            l \in Literals}

Examples ==
    { <<"2", " ", "+", " ", "3", " ", "*", " ", "4">>,
      <<"8", " ", "-", " ", "3", " ", "-", " ", "2">>,
      <<"(", "2", " ", "+", " ", "3", ")", " ", "*", " ", "4">>,
      <<"-", "7", " ", "/", " ", "2">>,
      <<"1", "5", " ", "/", " ", "2", TAB, "/", " ", "2">>,
      <<QUOTE, "a", "b", "c">>,
      <<"2", " ", "&", " ", "3">>,
      <<"2", " ", "+", " ", "3", ")">>,
      <<"1", "2", NL, "+", " ", QUOTE, "a", NL, "b">>,
      <<QUOTE, "a", "b", QUOTE, " ", "*", " ", "2">>,
      <<QUOTE, "a", "b", QUOTE, " ", "-", " ", "2">>,
      <<QUOTE, "a", QUOTE, " ", "+", " ", QUOTE, "b", "&", QUOTE>> }

Sources == Texts \cup UNION {Chains(n) : n \in 1..MaxOperands} \cup Examples

(***************************************************************************)
(* State of one run(filename, srcText)                                     *)
(***************************************************************************)
VARIABLES
    srcText,     \* the source text
    pc,          \* where run() is
    curPos,      \* Lexer.curPos
    prevPos,     \* Lexer.prevPos
    tokens,      \* Lexer.tokens
    lpc,         \* where getTokens is: its loop, getInt's loop or getStr's loop
    lexical,     \* the local lexical of getInt / getStr
    strPrevPos,  \* the local prevPos of getStr
    err,         \* the local err of getTokens
    runTokens,   \* the local tokens of run()
    error,       \* the local error of run()
    parserIdx,   \* Parser.idx
    ast,         \* the local ast of run()
    exprRes,     \* Interpreter.exprRes
    raised,      \* the exception that left run(), if any
    printed      \* what was printed, in order

vars == <<srcText, pc, curPos, prevPos, tokens, lpc, lexical, strPrevPos, err,
          runTokens, error, parserIdx, ast, exprRes, raised, printed>>

lexerVars == <<curPos, prevPos, tokens, lpc, lexical, strPrevPos, err>>
laterVars == <<parserIdx, ast, exprRes, raised, printed>>

Init ==
    /\ srcText \in Sources
    /\ pc = "getTokens"
    /\ curPos = Position(0, 1, 1)
    /\ prevPos = Position(0, 1, 1)
    /\ tokens = <<>>
    /\ lpc = "loop"
    /\ lexical = <<>>
    /\ strPrevPos = Position(0, 1, 1)
    /\ err = None
    /\ runTokens = None
    /\ error = None
    /\ parserIdx = 0
    /\ ast = None
    /\ exprRes = None
    /\ raised = None
    /\ printed = <<>>

InLoop == pc = "getTokens" /\ lpc = "loop"

\* getTokens, one iteration on a whitespace character
GetTokensWhitespace ==
    /\ InLoop /\ ~LexerIsEnd(srcText, curPos)
    /\ LexerPeek(srcText, curPos) \in WHITESPACES
    /\ prevPos' = curPos
    /\ curPos' = LexerAdvance(srcText, curPos)
    /\ UNCHANGED <<srcText, pc, tokens, lpc, lexical, strPrevPos, err,
                   runTokens, error>>
    /\ UNCHANGED laterVars

\* getTokens, one iteration on a digit: enters getInt
GetTokensDigit ==
    /\ InLoop /\ ~LexerIsEnd(srcText, curPos)
    /\ LexerPeek(srcText, curPos) \in DIGITS
    /\ prevPos' = curPos
    /\ lexical' = <<>>
    /\ lpc' = "getInt"
    /\ UNCHANGED <<srcText, pc, curPos, tokens, strPrevPos, err, runTokens, error>>
    /\ UNCHANGED laterVars

\* getInt, one iteration of its loop
GetIntDigit ==
    /\ pc = "getTokens" /\ lpc = "getInt"
    /\ ~LexerIsEnd(srcText, curPos) /\ LexerPeek(srcText, curPos) \in DIGITS
    /\ lexical' = Append(lexical, LexerPeek(srcText, curPos))
    /\ curPos' = LexerAdvance(srcText, curPos)
    /\ UNCHANGED <<srcText, pc, prevPos, tokens, lpc, strPrevPos, err,
                   runTokens, error>>
    /\ UNCHANGED laterVars

\* getInt, after its loop
GetIntToken ==
    /\ pc = "getTokens" /\ lpc = "getInt"
    /\ ~(~LexerIsEnd(srcText, curPos) /\ LexerPeek(srcText, curPos) \in DIGITS)
    /\ tokens' = Append(tokens, Token(TT_INT, lexical, prevPos, curPos))
    /\ lpc' = "loop"
    /\ UNCHANGED <<srcText, pc, curPos, prevPos, lexical, strPrevPos, err,
                   runTokens, error>>
    /\ UNCHANGED laterVars

\* getTokens, one iteration on a quote: enters getStr, which takes the quote
GetTokensQuote ==
    /\ InLoop /\ ~LexerIsEnd(srcText, curPos)
    /\ LexerPeek(srcText, curPos) = QUOTE
    /\ prevPos' = curPos
    /\ strPrevPos' = curPos
    /\ lexical' = <<LexerPeek(srcText, curPos)>>
    /\ curPos' = LexerAdvance(srcText, curPos)
    /\ lpc' = "getStr"
    /\ UNCHANGED <<srcText, pc, tokens, err, runTokens, error>>
    /\ UNCHANGED laterVars

\* getStr, one iteration of its loop
GetStrChar ==
    /\ pc = "getTokens" /\ lpc = "getStr"
    /\ ~LexerIsEnd(srcText, curPos) /\ LexerPeek(srcText, curPos) # QUOTE
    /\ strPrevPos' = curPos
    /\ lexical' = Append(lexical, LexerPeek(srcText, curPos))
    /\ curPos' = LexerAdvance(srcText, curPos)
    /\ UNCHANGED <<srcText, pc, prevPos, tokens, lpc, err, runTokens, error>>
    /\ UNCHANGED laterVars

\* getStr at the end of the text: it returns an error, which getTokens
\* assigns to err; the statement `None, err` that follows has no effect
GetStrEof ==
    /\ pc = "getTokens" /\ lpc = "getStr"
    /\ LexerIsEnd(srcText, curPos)
    /\ err' = Some(IllegalCharError("expected '\"' but instead reached eof.",
                                    strPrevPos, curPos))
    /\ lpc' = "loop"
    /\ UNCHANGED <<srcText, pc, curPos, prevPos, tokens, lexical, strPrevPos,
                   runTokens, error>>
    /\ UNCHANGED laterVars

\* getStr at the closing quote: it appends the token and returns None
GetStrToken ==
    /\ pc = "getTokens" /\ lpc = "getStr"
    /\ ~LexerIsEnd(srcText, curPos) /\ LexerPeek(srcText, curPos) = QUOTE
    /\ lexical' = Append(lexical, LexerPeek(srcText, curPos))
    /\ curPos' = LexerAdvance(srcText, curPos)
    /\ tokens' = Append(tokens, Token(TT_STR, lexical', prevPos, curPos'))
    /\ err' = None
    /\ lpc' = "loop"
    /\ UNCHANGED <<srcText, pc, prevPos, strPrevPos, runTokens, error>>
    /\ UNCHANGED laterVars

\* getTokens, one iteration on one of + - * / ( )
GetTokensOperator ==
    /\ InLoop /\ ~LexerIsEnd(srcText, curPos)
    /\ LexerPeek(srcText, curPos) \in OpChars
    /\ prevPos' = curPos
    /\ curPos' = LexerAdvance(srcText, curPos)
    /\ tokens' = Append(tokens, Token(OpTokenType(LexerPeek(srcText, curPos)),
                                      <<LexerPeek(srcText, curPos)>>,
                                      prevPos', curPos'))
    /\ UNCHANGED <<srcText, pc, lpc, lexical, strPrevPos, err, runTokens, error>>
    /\ UNCHANGED laterVars

GetTokensIllegalNoAdvance ==
    /\ InLoop /\ ~LexerIsEnd(srcText, curPos)
    /\ LexerPeek(srcText, curPos) \notin
           WHITESPACES \cup DIGITS \cup {QUOTE} \cup OpChars
    /\ prevPos' = curPos
    /\ curPos' = curPos
    /\ runTokens' = None
    /\ error' = Some(IllegalCharError(<<"character '", LexerPeek(srcText, curPos),
                                        "' is unexpected.">>, prevPos', curPos'))
    /\ pc' = "lexed"
    /\ UNCHANGED <<srcText, tokens, lpc, lexical, strPrevPos, err>>
    /\ UNCHANGED laterVars

\* getTokens, one iteration on any other character: returns None and an error
GetTokensIllegal ==
    /\ InLoop /\ ~LexerIsEnd(srcText, curPos)
    /\ LexerPeek(srcText, curPos) \notin
           WHITESPACES \cup DIGITS \cup {QUOTE} \cup OpChars
    /\ prevPos' = curPos
    /\ curPos' = LexerAdvance(srcText, curPos)
    /\ runTokens' = None
    /\ error' = Some(IllegalCharError(<<"character '", LexerPeek(srcText, curPos),
                                        "' is unexpected.">>, prevPos', curPos'))
    /\ pc' = "lexed"
    /\ UNCHANGED <<srcText, tokens, lpc, lexical, strPrevPos, err>>
    /\ UNCHANGED laterVars

\* getTokens, after its loop: appends the EOF token and returns the tokens
GetTokensEof ==
    /\ InLoop /\ LexerIsEnd(srcText, curPos)
    /\ tokens' = Append(tokens, Token(TT_EOF, <<>>, curPos, curPos))
    /\ runTokens' = Some(tokens')
    /\ error' = None
    /\ pc' = "lexed"
    /\ UNCHANGED <<srcText, curPos, prevPos, lpc, lexical, strPrevPos, err>>
    /\ UNCHANGED laterVars

\* run(): the lexer failed
RunLexerError ==
    /\ pc = "lexed" /\ error # None
    /\ printed' = Append(printed, "error")
    /\ pc' = "done"
    /\ UNCHANGED <<srcText, runTokens, error, parserIdx, ast, exprRes, raised>>
    /\ UNCHANGED lexerVars

\* run(): parser.parse() succeeds
RunParse ==
    /\ pc = "lexed" /\ error = None
    /\ LET p == Parse(runTokens[1])
       IN  /\ p.error = None
           /\ ast' = p.node
           /\ error' = p.error
           /\ parserIdx' = p.idx
    /\ pc' = "parsed"
    /\ UNCHANGED <<srcText, runTokens, exprRes, raised, printed>>
    /\ UNCHANGED lexerVars

\* run(): parser.parse() fails; parse prints the current token when the
\* term is followed by something else than the end
RunParseError ==
    /\ pc = "lexed" /\ error = None
    /\ LET p == Parse(runTokens[1])
       IN  /\ p.error # None
           /\ ast' = p.node
           /\ error' = p.error
           /\ parserIdx' = p.idx
           /\ printed' = IF p.error[1].errDetails = "Something went wrong."
                         THEN <<"peek", "error">> ELSE <<"error">>
    /\ pc' = "done"
    /\ UNCHANGED <<srcText, runTokens, exprRes, raised>>
    /\ UNCHANGED lexerVars

\* run(): interpreter.interpret(ast) prints the result
RunInterpret ==
    /\ pc = "parsed"
    /\ LET v == visit(ast[1])
       IN  /\ v.raised = None
           /\ exprRes' = v.exprRes
           /\ raised' = v.raised
    /\ printed' = Append(printed, "exprRes")
    /\ pc' = "done"
    /\ UNCHANGED <<srcText, runTokens, error, parserIdx, ast>>
    /\ UNCHANGED lexerVars

\* run(): interpreter.interpret(ast) raises
RunInterpretRaises ==
    /\ pc = "parsed"
    /\ LET v == visit(ast[1])
       IN  /\ v.raised # None
           /\ exprRes' = v.exprRes
           /\ raised' = v.raised
    /\ pc' = "done"
    /\ UNCHANGED <<srcText, runTokens, error, parserIdx, ast, printed>>
    /\ UNCHANGED lexerVars

Next ==
    \/ GetTokensWhitespace
    \/ GetTokensDigit
    \/ GetIntDigit
    \/ GetIntToken
    \/ GetTokensQuote
    \/ GetStrChar
    \/ GetStrEof
    \/ GetStrToken
    \/ GetTokensOperator
    \/ GetTokensIllegal
    \/ GetTokensEof
    \/ RunLexerError
    \/ RunParse
    \/ RunParseError
    \/ RunInterpret
    \/ RunInterpretRaises

Spec == Init /\ [][Next]_vars

(***************************************************************************)
(* Reference definitions used to state the properties                      *)
(***************************************************************************)
LegalChars == {" ", NL, TAB, QUOTE, "+", "-", "*", "/", "(", ")",
               "0", "1", "2", "3", "4", "5", "6", "7", "8", "9"}

\* Reading src from its i-th character on, inStr telling whether a string
\* literal is open: the offset of the first character outside a string
\* literal that is not legal (-1 if none), and whether the text ends inside
\* a string literal.
RECURSIVE ScanFrom(_, _, _)
ScanFrom(src, i, inStr) ==
    IF i > Len(src) THEN [illegal |-> -1, unterminated |-> inStr]
    ELSE IF inStr THEN ScanFrom(src, i + 1, src[i] # QUOTE)
    ELSE IF src[i] = QUOTE THEN ScanFrom(src, i + 1, TRUE)
    ELSE IF src[i] \in LegalChars THEN ScanFrom(src, i + 1, FALSE)
    ELSE [illegal |-> i - 1, unterminated |-> FALSE]

Scan(src) == ScanFrom(src, 1, FALSE)

NewlinesIn(p) == Cardinality({i \in 1..Len(p) : p[i] = NL})

AfterLastNewline(p) ==
    Cardinality({i \in 1..Len(p) : \A j \in i..Len(p) : p[j] # NL})

LexerReturned == pc # "getTokens"
ParserReturned == pc = "parsed" \/ (pc = "done" /\ runTokens # None)

RefLiteral(t) ==
    [node |-> "LiteralNode", startPos |-> t.startPos, endPos |-> t.endPos,
     literal |-> t]

RefBinary(l, o, r) ==
    [node |-> "BinaryNode", startPos |-> l.startPos, endPos |-> r.endPos,
     left |-> l, op |-> o, right |-> r]

\* the left fold of the first k operands of the chain toks
RECURSIVE RefLeftFold(_, _)
RefLeftFold(toks, k) ==
    IF k = 1 THEN RefLiteral(toks[1])
    ELSE RefBinary(RefLeftFold(toks, k - 1), toks[2 * k - 2],
                   RefLiteral(toks[2 * k - 1]))

\* toks is operand (operator operand)* EOF with every operator in ops
IsChain(toks, ops) ==
    /\ Len(toks) % 2 = 0
    /\ toks[Len(toks)].type = "EOF"
    /\ \A i \in 1..(Len(toks) - 1) :
          IF i % 2 = 1 THEN toks[i].type \in {"INT", "STR"}
          ELSE toks[i].type \in ops

Src_2_plus_3_times_4 == <<"2", " ", "+", " ", "3", " ", "*", " ", "4">>
Src_8_minus_3_minus_2 == <<"8", " ", "-", " ", "3", " ", "-", " ", "2">>
Src_paren_2_plus_3_times_4 ==
    <<"(", "2", " ", "+", " ", "3", ")", " ", "*", " ", "4">>
Src_minus_7_div_2 == <<"-", "7", " ", "/", " ", "2">>
Src_2_plus_3_rparen == <<"2", " ", "+", " ", "3", ")">>

PrintedValue(n) ==
    /\ pc = "done"
    /\ exprRes = Some(IntValue(n))
    /\ raised = None
    /\ printed = <<"exprRes">>

(***************************************************************************)
(* C1.  As soon as a stage detects an error (the lexer's getStr or         *)
(* getTokens, the parser), that error is the one run() reports: the later  *)
(* stages are not executed and no value is produced.                       *)
(***************************************************************************)
C1_FirstErrorReported ==
    /\ err # None =>
          /\ pc \in {"getTokens", "lexed", "done"}
          /\ ast = None /\ exprRes = None
          /\ LexerReturned => (runTokens = None /\ error = err)
          /\ pc = "done" => printed = <<"error">>
    /\ error # None =>
          /\ pc \in {"lexed", "done"}
          /\ ast = None /\ exprRes = None
          /\ pc = "done" => printed[Len(printed)] = "error"

(***************************************************************************)
(* C2.  When a quote is opened and the text ends before the closing quote, *)
(* getTokens returns no tokens and the error that getStr made.             *)
(***************************************************************************)
C2_UnterminatedStringFails ==
    (LexerReturned /\ Scan(srcText).unterminated) =>
        /\ runTokens = None
        /\ err # None
        /\ error = err

(***************************************************************************)
(* C3.  A parenthesized term is a primary: the tokens ( t ) where t is a   *)
(* valid term parse to the AST of t, and (2 + 3) * 4 evaluates to 20.      *)
(***************************************************************************)
C3_ParenthesizedPrimary ==
    /\ (ParserReturned /\ Len(runTokens[1]) >= 3) =>
          LET toks == runTokens[1]
              inner == Parse(SubSeq(toks, 2, Len(toks) - 2) \o <<toks[Len(toks)]>>)
          IN  (/\ toks[1].type = "LPAREN"
               /\ toks[Len(toks) - 1].type = "RPAREN"
               /\ inner.error = None)
              => (error = None /\ ast = inner.node)
    /\ (pc = "done" /\ srcText = Src_paren_2_plus_3_times_4) => PrintedValue(20)

(***************************************************************************)
(* C4.  * and / bind tighter than + and -: a op1 b op2 c with op1 one of   *)
(* + - and op2 one of * / parses to Binary(a, op1, Binary(b, op2, c)), and *)
(* 2 + 3 * 4 evaluates to 14.                                              *)
(***************************************************************************)
C4_Precedence ==
    /\ ParserReturned =>
          LET toks == runTokens[1]
          IN  (/\ Len(toks) = 6
               /\ IsChain(toks, {"PLUS", "MINUS", "MULTIPLY", "DIVIDE"})
               /\ toks[2].type \in {"PLUS", "MINUS"}
               /\ toks[4].type \in {"MULTIPLY", "DIVIDE"})
              => /\ error = None
                 /\ ast = Some(RefBinary(RefLiteral(toks[1]), toks[2],
                                         RefBinary(RefLiteral(toks[3]), toks[4],
                                                   RefLiteral(toks[5]))))
    /\ (pc = "done" /\ srcText = Src_2_plus_3_times_4) => PrintedValue(14)

C4_Witness ==
    /\ srcText = Src_2_plus_3_times_4
    /\ PrintedValue(14)
    /\ ast[1].right.node = "BinaryNode"

(***************************************************************************)
(* C5.  Operators of one precedence level associate to the left: a chain   *)
(* of operands separated by + and - only, or by * and / only, parses to    *)
(* its left fold, and 8 - 3 - 2 evaluates to 3.                            *)
(***************************************************************************)
C5_LeftAssociative ==
    /\ ParserReturned =>
          LET toks == runTokens[1]
          IN  (\/ IsChain(toks, {"PLUS", "MINUS"})
               \/ IsChain(toks, {"MULTIPLY", "DIVIDE"}))
              => /\ error = None
                 /\ ast = Some(RefLeftFold(toks, Len(toks) \div 2))
    /\ (pc = "done" /\ srcText = Src_8_minus_3_minus_2) => PrintedValue(3)

C5_Witness ==
    /\ srcText = Src_8_minus_3_minus_2
    /\ PrintedValue(3)
    /\ ast[1].left.node = "BinaryNode"

(***************************************************************************)
(* C6.  / is floor division and a negative dividend can be written:        *)
(* -7 / 2 evaluates to -4.                                                 *)
(***************************************************************************)
C6_NegativeDividendFloorDivision ==
    (pc = "done" /\ srcText = Src_minus_7_div_2) => PrintedValue(-4)

(***************************************************************************)
(* C7.  When the first character that is outside a string literal and is   *)
(* not whitespace, a digit, a quote or one of + - * / ( ) is at offset k,  *)
(* getTokens returns no tokens and an IllegalCharError spanning offsets k  *)
(* to k + 1, and the cursor never goes beyond k + 1.                       *)
(***************************************************************************)
C7_IllegalCharacter ==
    LET k == Scan(srcText).illegal
    IN  k >= 0 =>
          /\ curPos.idx <= k + 1
          /\ LexerReturned =>
                /\ runTokens = None
                /\ error # None
                /\ error[1].errName = "IllegalCharError"
                /\ error[1].errDetails[2] = srcText[k + 1]
                /\ error[1].startPos.idx = k
                /\ error[1].endPos.idx = k + 1
                /\ curPos.idx = k + 1
                /\ ast = None /\ exprRes = None

C7_Witness ==
    LET k == Scan(srcText).illegal
    IN  /\ k > 0 /\ k + 1 < Len(srcText)
        /\ pc = "done"
        /\ printed = <<"error">>
        /\ error[1].errName = "IllegalCharError"
        /\ error[1].startPos.idx = k

(***************************************************************************)
(* C8.  Trailing input is rejected: when the top-level term parses and the *)
(* token after it is not EOF, parse returns no AST and a SyntaxError from  *)
(* the start of that token to the end of the EOF token.                    *)
(***************************************************************************)
C8_TrailingInput ==
    (pc = "done" /\ runTokens # None) =>
        LET toks == runTokens[1]
            t == Term(toks, 0)
        IN  (t.error = None /\ toks[t.idx + 1].type # "EOF")
            => /\ ast = None /\ exprRes = None
               /\ error # None
               /\ error[1].errName = "SyntaxError"
               /\ parserIdx = t.idx
               /\ error[1].startPos = toks[parserIdx + 1].startPos
               /\ error[1].endPos = toks[Len(toks)].endPos
               /\ error[1].endPos.idx = Len(srcText)
               /\ srcText = Src_2_plus_3_rparen
                    => (toks[parserIdx + 1].type = "RPAREN"
                        /\ error[1].startPos.idx = 5)

C8_Witness ==
    /\ pc = "done" /\ runTokens # None
    /\ error # None
    /\ error[1].errDetails = "Something went wrong."
    /\ parserIdx + 2 < Len(runTokens[1])
    /\ printed = <<"peek", "error">>

(***************************************************************************)
(* C9.  A Binary node with operator - or * of which an operand evaluates   *)
(* to a str does not evaluate to a value.                                  *)
(***************************************************************************)
C9_TextOperandFails ==
    (pc = "done" /\ ast # None /\ ast[1].node = "BinaryNode") =>
        LET l == visit(ast[1].left)
            r == visit(ast[1].right)
        IN  (/\ ast[1].op.type \in {"MINUS", "MULTIPLY"}
             /\ l.raised = None /\ r.raised = None
             /\ (l.exprRes[1].tag = "str" \/ r.exprRes[1].tag = "str"))
            => (raised # None /\ printed = <<>>)

(***************************************************************************)
(* C10.  After the lexer has consumed the prefix p of the text, the cursor *)
(* has idx = length of p, ln = 1 + the newlines of p and col = 1 + the     *)
(* characters of p after its last newline; the cursor never passes the end *)
(* of the text.                                                            *)
(***************************************************************************)
C10_CursorPosition ==
    /\ curPos.idx \in 0..Len(srcText)
    /\ LET p == SubSeq(srcText, 1, curPos.idx)
       IN  /\ curPos.ln = 1 + NewlinesIn(p)
           /\ curPos.col = 1 + AfterLastNewline(p)

C10_Witness ==
    /\ pc = "getTokens"
    /\ curPos.ln > 1 /\ curPos.col > 1
    /\ curPos.idx < Len(srcText)

====
